---- MODULE Spec2Model ----
(***************************************************************************)
(* PyNS: flux-limited advection (discretization/advection.py) and the      *)
(* transport-equation driver (discretization/calc_phi.py).                 *)
(*                                                                         *)
(* Numbers.  The program computes in IEEE double precision.  The model     *)
(* computes with exact rationals <<numerator, denominator>> in lowest      *)
(* terms; <<0, 0>> stands for a non-number (the result of dividing by      *)
(* zero) and is absorbing.  Rounding and overflow of doubles are not       *)
(* modelled.                                                               *)
(*                                                                         *)
(* Arrays.  A three-dimensional numpy array is a record                    *)
(*   [sh |-> <<n1, n2, n3>>, v |-> [Idx(sh) -> rationals]]                 *)
(* with 1-based indices; axis 1, 2, 3 are the program's X, Y, Z.           *)
(***************************************************************************)
EXTENDS Integers, Sequences, FiniteSets, TLC

(***************************************************************************)
(* pyns.constants: axes / placements and boundary sides.                   *)
(***************************************************************************)
X == 1
Y == 2
Z == 3
C == 4
AXES == {X, Y, Z}

(* TLC applies a function written [x \in S |-> e] by evaluating e again at  *)
(* every application; comparing it with itself makes TLC tabulate it once.  *)
Tab(f) == IF f = f THEN f ELSE f

(***************************************************************************)
(* Exact rational arithmetic.                                              *)
(***************************************************************************)
Abs(n) == IF n < 0 THEN -n ELSE n

RECURSIVE Gcd(_, _)
Gcd(a, b) == IF b = 0 THEN a ELSE Gcd(b, a % b)

NAN == <<0, 0>>

Norm(n, d) ==
    IF d = 0 THEN NAN
    ELSE IF n = 0 THEN <<0, 1>>
    ELSE IF d = 1 THEN <<n, 1>>
    ELSE LET g == Gcd(Abs(n), d) IN <<n \div g, d \div g>>

Q(n) == <<n, 1>>
ZERO == <<0, 1>>
ONE == <<1, 1>>
TWO == <<2, 1>>
THREE == <<3, 1>>
HALF == <<1, 2>>

IsNaN(p) == p[2] = 0
RAdd(p, q) == Norm(p[1] * q[2] + q[1] * p[2], p[2] * q[2])
RSub(p, q) == Norm(p[1] * q[2] - q[1] * p[2], p[2] * q[2])
RMul(p, q) == Norm(p[1] * q[1], p[2] * q[2])
RDiv(p, q) ==
    IF q[1] < 0 THEN Norm(-(p[1] * q[2]), p[2] * (-q[1]))
    ELSE Norm(p[1] * q[2], p[2] * q[1])
RNeg(p) == <<-p[1], p[2]>>
RAbs(p) == <<Abs(p[1]), p[2]>>
RLt(p, q) == (~IsNaN(p)) /\ (~IsNaN(q)) /\ p[1] * q[2] < q[1] * p[2]
RLe(p, q) == (~IsNaN(p)) /\ (~IsNaN(q)) /\ p[1] * q[2] <= q[1] * p[2]
RGe(p, q) == RLe(q, p)
RGt(p, q) == RLt(q, p)
\* numpy maximum / minimum: a non-number operand gives a non-number
RMax(p, q) == IF IsNaN(p) \/ IsNaN(q) THEN NAN ELSE IF RLe(p, q) THEN q ELSE p
RMin(p, q) == IF IsNaN(p) \/ IsNaN(q) THEN NAN ELSE IF RLe(p, q) THEN p ELSE q
\* a boolean used as a number
B2R(b) == IF b THEN ONE ELSE ZERO

(***************************************************************************)
(* Three-dimensional arrays and the operators of pyns.operators.           *)
(***************************************************************************)
Idx(sh) == (1..sh[1]) \X (1..sh[2]) \X (1..sh[3])

Arr(sh, f) == [sh |-> sh, v |-> Tab(f)]

\* index t moved by k along axis ax
Shift(t, ax, k) == [t EXCEPT ![ax] = @ + k]

\* numpy full(shape, c): zeros(shape) and ones(shape) are Full(sh, ZERO/ONE)
Full(sh, c) == Arr(sh, [t \in Idx(sh) |-> c])
zeros(sh) == Full(sh, ZERO)
ones(sh) == Full(sh, ONE)

\* elementwise binary and unary operations (equal shapes)
Map2(Op(_, _), A, B) == Arr(A.sh, [t \in Idx(A.sh) |-> Op(A.v[t], B.v[t])])
Map1(Op(_), A) == Arr(A.sh, [t \in Idx(A.sh) |-> Op(A.v[t])])
AAdd(A, B) == Map2(RAdd, A, B)
ASub(A, B) == Map2(RSub, A, B)
AMul(A, B) == Map2(RMul, A, B)
ADiv(A, B) == Map2(RDiv, A, B)
\* array op scalar (numpy broadcasting of a scalar)
SMul(A, c) == Arr(A.sh, [t \in Idx(A.sh) |-> RMul(A.v[t], c)])
abs(A) == Map1(RAbs, A)

\* a[lo-1:hi] along axis ax: the slab of (1-based, inclusive) indices lo..hi
Slab(ax, A, lo, hi) ==
    LET sh == [A.sh EXCEPT ![ax] = hi - lo + 1]
    IN  Arr(sh, [t \in Idx(sh) |-> A.v[Shift(t, ax, lo - 1)]])

First(ax, A) == Slab(ax, A, 1, 1)
Last(ax, A) == Slab(ax, A, A.sh[ax], A.sh[ax])

\* cat_x / cat_y / cat_z of two arrays: concatenation along axis ax
cat2(ax, A, B) ==
    LET sh == [A.sh EXCEPT ![ax] = @ + B.sh[ax]]
    IN  Arr(sh, [t \in Idx(sh) |->
                   IF t[ax] <= A.sh[ax] THEN A.v[t]
                   ELSE B.v[Shift(t, ax, -A.sh[ax])]])

cat3(ax, A, B, D) == cat2(ax, cat2(ax, A, B), D)
cat5(ax, A, B, D, E, F) == cat2(ax, cat2(ax, cat3(ax, A, B, D), E), F)

\* dif_x / dif_y / dif_z: a[1:] - a[:-1] along axis ax
dif(ax, A) ==
    LET sh == [A.sh EXCEPT ![ax] = @ - 1]
    IN  Arr(sh, [t \in Idx(sh) |-> RSub(A.v[Shift(t, ax, 1)], A.v[t])])

\* avg_x / avg_y / avg_z: (a[1:] + a[:-1]) * 0.5 along axis ax
avg(ax, A) ==
    LET sh == [A.sh EXCEPT ![ax] = @ - 1]
    IN  Arr(sh, [t \in Idx(sh) |->
                   RMul(RAdd(A.v[Shift(t, ax, 1)], A.v[t]), HALF)])

\* a[i-1:i] = b along axis ax (b one slab thick): in-place slab assignment
SetSlab(ax, A, i, Bs) ==
    Arr(A.sh, [t \in Idx(A.sh) |->
                 IF t[ax] = i THEN Bs.v[[t EXCEPT ![ax] = 1]] ELSE A.v[t]])


(***************************************************************************)
(* pyns.constants: the clamp of the consecutive differences.  The program  *)
(* sets TINY to a very small positive double; the model takes the positive *)
(* rational 1/TinyDen, which keeps every product inside TLC's integers.    *)
(***************************************************************************)
TinyDen == 8
TINY == <<1, TinyDen>>

\* boundary sides below and above along each axis: W/E, S/N, B/T
Lo(ax) == <<"W", "S", "B">>[ax]
Hi(ax) == <<"E", "N", "T">>[ax]

LIMITERS == {"upwind", "minmod", "superbee", "koren"}
PLACEMENTS == {C, X, Y, Z}

(***************************************************************************)
(* advection, lines 45-48: face areas sx = dy*dz, sy = dx*dz, sz = dx*dy   *)
(***************************************************************************)
s_area(dxyz, ax) ==
    IF ax = X THEN AMul(dxyz[Y], dxyz[Z])
    ELSE IF ax = Y THEN AMul(dxyz[X], dxyz[Z])
    ELSE AMul(dxyz[X], dxyz[Y])

(***************************************************************************)
(* lines 78-99 (and 133-147, 181-195, 229-243): periodic patch of a face   *)
(* array along axis ax:  a[:1] = a[-2:-1] ;  a[-1:] = a[1:2]               *)
(***************************************************************************)
PerPatchLast(ax, A) == SetSlab(ax, A, A.sh[ax], Slab(ax, A, 2, 2))
PerPatch(ax, A) ==
    PerPatchLast(ax, SetSlab(ax, A, 1, Slab(ax, A, A.sh[ax] - 1, A.sh[ax] - 1)))

\* the patch applied where the axis is periodic
PerFix(per, ax, A) == IF per[ax] THEN PerPatch(ax, A) ELSE A

\* a face array padded with its own first and last slab along ax
Pad(ax, A) == cat3(ax, First(ax, A), A, Last(ax, A))

(***************************************************************************)
(* rho_x_fac, rho_y_fac, rho_z_fac for placement pos (lines 64-66,         *)
(* 113-117, 161-165, 209-213) with the periodic patch.                     *)
(***************************************************************************)
rho_fac(rho, pos, per, ax) ==
    IF pos = ax THEN rho
    ELSE PerFix(per, ax,
                IF pos = C
                THEN cat3(ax, First(ax, rho), avg(ax, rho), Last(ax, rho))
                ELSE Pad(ax, avg(pos, avg(ax, rho))))

(***************************************************************************)
(* a_x_fac, a_y_fac, a_z_fac (lines 69-71, 120-126, 168-174, 216-222)      *)
(***************************************************************************)
a_fac_of(s, pos, per, ax) ==
    IF pos = ax THEN s
    ELSE PerFix(per, ax,
                IF pos = C
                THEN cat3(ax, First(ax, s), avg(ax, s), Last(ax, s))
                ELSE cat3(ax, avg(pos, First(ax, s)),
                              avg(pos, avg(ax, s)),
                              avg(pos, Last(ax, s))))

a_fac(dxyz, pos, per, ax) == a_fac_of(s_area(dxyz, ax), pos, per, ax)

(***************************************************************************)
(* del_x, del_y, del_z (lines 74-76, 129-131, 177-179, 225-227)            *)
(***************************************************************************)
del_full(ax, dd) ==
    cat3(ax, SMul(First(ax, dd), HALF), avg(ax, dd), SMul(Last(ax, dd), HALF))

del_fac(dxyz, pos, per, ax) ==
    IF pos = ax THEN dxyz[ax]
    ELSE PerFix(per, ax,
                IF pos = C THEN del_full(ax, dxyz[ax])
                ELSE avg(pos, del_full(ax, dxyz[ax])))

(***************************************************************************)
(* u_fac, v_fac, w_fac (lines 103-105, 151-153, 199-201, 247-249)          *)
(***************************************************************************)
vel_fac_of(f, pos, ax) ==
    IF pos = C THEN cat3(ax, f.bnd[Lo(ax)], f.val, f.bnd[Hi(ax)])
    ELSE IF pos = ax
         THEN cat3(ax, f.bnd[Lo(ax)], avg(ax, f.val), f.bnd[Hi(ax)])
         ELSE avg(pos, cat3(ax, f.bnd[Lo(ax)], f.val, f.bnd[Hi(ax)]))

vel_fac(uvwf, pos, ax) == vel_fac_of(uvwf[ax], pos, ax)

(***************************************************************************)
(* lines 288-289 (302-303, 316-317): the two clamp assignments, in order   *)
(*   d[(d > -TINY) & (d <= 0.0)] = -TINY                                   *)
(*   d[(d >= 0.0) & (d < +TINY)] = +TINY                                   *)
(***************************************************************************)
\* the first mask written with d < 0.0
clamp1_strict(q) == IF RGt(q, RNeg(TINY)) /\ RLt(q, ZERO) THEN RNeg(TINY) ELSE q
clamp1(q) == IF RGt(q, RNeg(TINY)) /\ RLe(q, ZERO) THEN RNeg(TINY) ELSE q
clamp2(q) == IF RGe(q, ZERO) /\ RLt(q, TINY) THEN TINY ELSE q
\* the two assignments in the other order
clamp_swapped(q) == clamp1(clamp2(q))
clamp(q) == clamp2(clamp1(q))

(***************************************************************************)
(* lines 277-287 (291-301, 305-315): consecutive differences of the        *)
(* transported variable along ax, before the clamp                         *)
(***************************************************************************)
d_raw(phi, ax) ==
    IF ~phi.per[ax]
    THEN dif(ax, cat5(ax, phi.bnd[Lo(ax)], phi.bnd[Lo(ax)], phi.val,
                          phi.bnd[Hi(ax)], phi.bnd[Hi(ax)]))
    ELSE IF phi.pos = ax
         THEN dif(ax, cat3(ax, Slab(ax, phi.val, phi.val.sh[ax] - 1,
                                    phi.val.sh[ax]),
                               phi.val, Slab(ax, phi.val, 1, 2)))
         ELSE dif(ax, cat3(ax, Slab(ax, phi.val, phi.val.sh[ax] - 2,
                                    phi.val.sh[ax] - 1),
                               phi.val, Slab(ax, phi.val, 2, 3)))

\* d_x, d_y, d_z after the clamp
d_ax(phi, ax) == Map1(clamp, d_raw(phi, ax))

(***************************************************************************)
(* lines 320-325: ratios of consecutive differences                        *)
(*   r_x_we = d_x[1:-1] / d_x[0:-2]     r_x_ew = d_x[2:] / d_x[1:-1]       *)
(***************************************************************************)
r_we(d, ax) == ADiv(Slab(ax, d, 2, d.sh[ax] - 1), Slab(ax, d, 1, d.sh[ax] - 2))
r_ew(d, ax) == ADiv(Slab(ax, d, 3, d.sh[ax]), Slab(ax, d, 2, d.sh[ax] - 1))

\* lines 327-332: flow_we = u_fac >= 0 ; flow_ew = lnot(flow_we)
geq0(q) == B2R(RGe(q, ZERO))
lnot1(q) == IF q = ZERO THEN ONE ELSE ZERO
flow_pos(vf) == Map1(geq0, vf)
lnot(fw) == Map1(lnot1, fw)

\* lines 334-336: r_x = r_x_we * flow_we + r_x_ew * flow_ew
r_ax(d, fw, fe, ax) ==
    AAdd(AMul(r_we(d, ax), fw), AMul(r_ew(d, ax), fe))

(***************************************************************************)
(* lines 339-354: the limiter function, one ratio at a time                *)
(***************************************************************************)
\* psi = r, the factor 0.0 lost
psi_upwind_ratio(r) == r
psi_upwind(r) == RMul(r, ZERO)
psi_minmod(r) == RMax(ZERO, RMin(r, ONE))
\* mn(r, 2.) written as r
psi_superbee_uncapped(r) == RMax(RMax(ZERO, RMin(RMul(TWO, r), ONE)), r)
psi_superbee(r) == RMax(RMax(ZERO, RMin(RMul(TWO, r), ONE)), RMin(r, TWO))
psi_koren(r) ==
    RMax(ZERO, RMin(RMin(RMul(TWO, r), RDiv(RAdd(TWO, r), THREE)),
                    RMul(TWO, ONE)))

psi_of(limiter, r) ==
    IF limiter = "upwind" THEN psi_upwind(r)
    ELSE IF limiter = "minmod" THEN psi_minmod(r)
    ELSE IF limiter = "superbee" THEN psi_superbee(r)
    ELSE psi_koren(r)

psi_ax(limiter, r) == Arr(r.sh, [t \in Idx(r.sh) |-> psi_of(limiter, r.v[t])])

(***************************************************************************)
(* lines 400-405: upwind face flux                                         *)
(*   cat((bnd[W], val)) * u_fac * flow_we + cat((val, bnd[E])) * u_fac * flow_ew *)
(***************************************************************************)
\* the donor cells of the two flow directions exchanged
flux_fac_upw_swapped(phi, vf, fw, fe, ax) ==
    AAdd(AMul(AMul(cat2(ax, phi.val, phi.bnd[Hi(ax)]), vf), fw),
         AMul(AMul(cat2(ax, phi.bnd[Lo(ax)], phi.val), vf), fe))

flux_fac_upw(phi, vf, fw, fe, ax) ==
    AAdd(AMul(AMul(cat2(ax, phi.bnd[Lo(ax)], phi.val), vf), fw),
         AMul(AMul(cat2(ax, phi.val, phi.bnd[Hi(ax)]), vf), fe))

(***************************************************************************)
(* lines 356-370: limited face flux, before the multiplication with        *)
(* density and area                                                        *)
(***************************************************************************)
one_minus(q) == RSub(ONE, q)

\* the correction weighted with 0.5 * (1 - |u| dt / del), abs(u_fac) lost
flux_fac_lim_no_abs(phi, vf, fw, fe, dt, dl, psi, d, ax) ==
    AAdd(AAdd(AMul(AMul(cat2(ax, phi.bnd[Lo(ax)], phi.val), vf), fw),
              AMul(AMul(cat2(ax, phi.val, phi.bnd[Hi(ax)]), vf), fe)),
         AMul(SMul(Map1(one_minus, ADiv(SMul(abs(vf), dt), dl)), HALF),
              AAdd(AMul(AMul(psi, Slab(ax, d, 1, d.sh[ax] - 2)), fw),
                   AMul(AMul(psi, Slab(ax, d, 2, d.sh[ax] - 1)), fe))))

flux_fac_lim(phi, vf, fw, fe, dt, dl, psi, d, ax) ==
    AAdd(AAdd(AMul(AMul(cat2(ax, phi.bnd[Lo(ax)], phi.val), vf), fw),
              AMul(AMul(cat2(ax, phi.val, phi.bnd[Hi(ax)]), vf), fe)),
         AMul(AMul(SMul(abs(vf), HALF),
                   Map1(one_minus, ADiv(SMul(abs(vf), dt), dl))),
              AAdd(AMul(AMul(psi, Slab(ax, d, 1, d.sh[ax] - 2)), fw),
                   AMul(AMul(psi, Slab(ax, d, 2, d.sh[ax] - 1)), fe))))

(***************************************************************************)
(* What lines 61-375 compute for one axis, one assignment after the other  *)
(* (t is the record of the local variables bound so far):                  *)
(*   face_terms  the face arrays (61-249) and the clamped differences      *)
(*               (276-317)                                                 *)
(*   add_flow_we, add_flow_ew   the flow masks (327-332)                   *)
(*   add_r       the selected ratio (319-336)                              *)
(*   add_psi     the limiter (338-354)                                     *)
(*   add_flux    the limited flux multiplied with density and area         *)
(*               (356-375)                                                 *)
(***************************************************************************)
face_terms(rho, phi, uvwf, dxyz, ax) ==
    [ u_fac   |-> vel_fac(uvwf, phi.pos, ax),
      rho_fac |-> rho_fac(rho, phi.pos, phi.per, ax),
      a_fac   |-> a_fac(dxyz, phi.pos, phi.per, ax),
      del     |-> del_fac(dxyz, phi.pos, phi.per, ax),
      d       |-> d_ax(phi, ax) ]

add_flow_we(t) == [flow_we |-> flow_pos(t.u_fac)] @@ t
add_flow_ew(t) == [flow_ew |-> lnot(t.flow_we)] @@ t
add_r(t, ax) == [r |-> r_ax(t.d, t.flow_we, t.flow_ew, ax)] @@ t
add_psi(t, limiter) == [psi |-> psi_ax(limiter, t.r)] @@ t
add_flux(t, phi, dt, ax) ==
    [flux_fac_lim |->
        AMul(flux_fac_lim(phi, t.u_fac, t.flow_we, t.flow_ew, dt, t.del,
                          t.psi, t.d, ax),
             AMul(t.rho_fac, t.a_fac))] @@ t

axis_terms(rho, phi, uvwf, dxyz, dt, limiter, ax) ==
    add_flux(add_psi(add_r(add_flow_ew(add_flow_we(
                 face_terms(rho, phi, uvwf, dxyz, ax))), ax), limiter),
             phi, dt, ax)

\* lines 400-410: the upwind flux of one axis multiplied with density and area
flux_upw_ax(phi, t, ax) ==
    AMul(flux_fac_upw(phi, t.u_fac, t.flow_we, t.flow_ew, ax),
         AMul(t.rho_fac, t.a_fac))

\* lines 384-397: (u_fac * flow_we * rho_x_fac * a_x_fac)[:-1,:,:]
m_we(t, ax) ==
    Slab(ax, AMul(AMul(AMul(t.u_fac, t.flow_we), t.rho_fac), t.a_fac),
         1, t.u_fac.sh[ax] - 1)
\* lines 385-397: (u_fac * flow_ew * rho_x_fac * a_x_fac)[ 1:,:,:]
m_ew(t, ax) ==
    Slab(ax, AMul(AMul(AMul(t.u_fac, t.flow_ew), t.rho_fac), t.a_fac),
         2, t.u_fac.sh[ax])

\* lines 378-380 and 413-415: dif_x(fx) + dif_y(fy) + dif_z(fz)
\* the z contribution subtracted
divergence_minus_z(fx, fy, fz) == ASub(AAdd(dif(X, fx), dif(Y, fy)), dif(Z, fz))
divergence(fx, fy, fz) == AAdd(AAdd(dif(X, fx), dif(Y, fy)), dif(Z, fz))

(***************************************************************************)
(* lines 383-397: the additive update of the caller's SystemMatrix         *)
(***************************************************************************)
\* the centre band updated with the sum instead of the difference
matrix_update_c_sum(matrix, tx, ty, tz) ==
    [ W |-> AAdd(matrix.W, m_we(tx, X)), E |-> ASub(matrix.E, m_ew(tx, X)),
      S |-> AAdd(matrix.S, m_we(ty, Y)), N |-> ASub(matrix.N, m_ew(ty, Y)),
      B |-> AAdd(matrix.B, m_we(tz, Z)), T |-> ASub(matrix.T, m_ew(tz, Z)),
      C |-> AAdd(AAdd(AAdd(matrix.C, AAdd(m_we(tx, X), m_ew(tx, X))),
                      AAdd(m_we(ty, Y), m_ew(ty, Y))),
                 AAdd(m_we(tz, Z), m_ew(tz, Z))) ]

matrix_update(matrix, tx, ty, tz) ==
    [ W |-> AAdd(matrix.W, m_we(tx, X)), E |-> ASub(matrix.E, m_ew(tx, X)),
      S |-> AAdd(matrix.S, m_we(ty, Y)), N |-> ASub(matrix.N, m_ew(ty, Y)),
      B |-> AAdd(matrix.B, m_we(tz, Z)), T |-> ASub(matrix.T, m_ew(tz, Z)),
      C |-> AAdd(AAdd(AAdd(matrix.C, ASub(m_we(tx, X), m_ew(tx, X))),
                      ASub(m_we(ty, Y), m_ew(ty, Y))),
                 ASub(m_we(tz, Z), m_ew(tz, Z))) ]

\* the default of the parameter matrix: no SystemMatrix is sent
None == [none |-> TRUE]
NoArray == [sh |-> <<0, 0, 0>>, v |-> <<>>]

(***************************************************************************)
(* advection(rho, phi, uvwf, dxyz, dt, limiter, matrix), lines 15-419.     *)
(* The outcome: the exception raised ("" when the call returns), the       *)
(* returned array, the SystemMatrix after the call, the stages of the body *)
(* that ran, in order, and the values the local variables u_fac, d, r, psi *)
(* and flux_fac_lim had for the three axes when the call returned.         *)
(*  - a placement that is none of C, X, Y, Z matches no branch of lines    *)
(*    61-249: u_fac is unbound and line 327 raises, after the              *)
(*    differences and the ratios of lines 276-325 were computed;           *)
(*  - a limiter that is none of the four names matches no branch of lines  *)
(*    339-354: psi_x is unbound and line 359 raises, after lines 38-336.   *)
(***************************************************************************)
c_lim_of(tx, ty, tz) ==
    divergence(tx.flux_fac_lim, ty.flux_fac_lim, tz.flux_fac_lim)
c_upw_of(phi, tx, ty, tz) ==
    divergence(flux_upw_ax(phi, tx, X), flux_upw_ax(phi, ty, Y),
               flux_upw_ax(phi, tz, Z))

LOCALS == {"u_fac", "d", "r", "psi", "flux_fac_lim"}
locals_of(tx, ty, tz) == [k \in LOCALS |-> <<tx[k], ty[k], tz[k]>>]
NoLocals == [k \in LOCALS |-> <<>>]

\* lines 377-419, given what lines 61-375 computed for the three axes
advection_end(phi, matrix, tx, ty, tz) ==
    IF matrix # None
    THEN [ exc |-> "", ret |-> ASub(c_lim_of(tx, ty, tz), c_upw_of(phi, tx, ty, tz)),
           matrix |-> matrix_update(matrix, tx, ty, tz),
           loc |-> locals_of(tx, ty, tz),
           work |-> <<"exchange", "faces", "differences", "ratios", "flow",
                      "limiter", "flux", "matrix", "upwind">> ]
    ELSE [ exc |-> "", ret |-> c_lim_of(tx, ty, tz), matrix |-> matrix,
           loc |-> locals_of(tx, ty, tz),
           work |-> <<"exchange", "faces", "differences", "ratios", "flow",
                      "limiter", "flux">> ]

advection(rho, phi, uvwf, dxyz, dt, limiter, matrix) ==
    IF phi.pos \notin PLACEMENTS
    THEN [ exc |-> "UnboundLocalError", ret |-> NoArray, matrix |-> matrix,
           loc |-> NoLocals,
           work |-> <<"exchange", "differences", "ratios">> ]
    ELSE IF limiter \notin LIMITERS
    THEN [ exc |-> "UnboundLocalError", ret |-> NoArray, matrix |-> matrix,
           loc |-> NoLocals,
           work |-> <<"exchange", "faces", "differences", "ratios", "flow">> ]
    ELSE advection_end(phi, matrix,
                       axis_terms(rho, phi, uvwf, dxyz, dt, limiter, X),
                       axis_terms(rho, phi, uvwf, dxyz, dt, limiter, Y),
                       axis_terms(rho, phi, uvwf, dxyz, dt, limiter, Z))

(***************************************************************************)
(* The caller's data.  Bounds of the model: the grid has NL cells along    *)
(* its long axis and two cells along the others (the fewest for which the  *)
(* staggered placements have transverse faces); fields, velocities and     *)
(* geometry are drawn from the families below, numbered by a seed.         *)
(***************************************************************************)
NL == 3
MaxSeed == 5
MaxCalls == 2

\* what a seed selects: the long axis of the grid and the family of the
\* transported field, of the velocity and of the geometry
LongOf(seed) == 1 + (seed % 3)
PhiFamily(seed) == (seed + 1) % 3
VelFamily(seed) == seed % 4
GeoFamily(seed) == seed % 2

\* number of cells along each axis when `long` is the long axis
Cells(long) == [ax \in 1..3 |-> IF ax = long THEN NL ELSE 2]

\* shape of a variable placed at pos: one less along its own axis
ShapeAt(cells, pos) ==
    [ax \in 1..3 |-> IF ax = pos THEN cells[ax] - 1 ELSE cells[ax]]
\* shape of a boundary array of a variable of shape sh on a side of axis ax
BndShape(sh, ax) == [sh EXCEPT ![ax] = 1]
SIDES == {"W", "E", "S", "N", "B", "T"}
SideAxis(side) ==
    IF side \in {"W", "E"} THEN X ELSE IF side \in {"S", "N"} THEN Y ELSE Z
SideSalt(side) ==
    IF side = "W" THEN 1 ELSE IF side = "E" THEN 2 ELSE IF side = "S" THEN 3
    ELSE IF side = "N" THEN 4 ELSE IF side = "B" THEN 5 ELSE 6

Mix(t, salt) == 5 * t[1] + 3 * t[2] + 7 * t[3] + salt

\* transported values, multiples of TINY/2: family 0 is the uniform field 2;
\* family 1 spreads over 0..2 (differences of magnitude above TINY); the
\* others take the values 0, TINY/2, TINY, 3 TINY/2, so that differences of
\* magnitude below TINY, of both signs, occur next to larger ones
PhiValue(fam, t, salt) ==
    IF fam = 0 THEN TWO
    ELSE IF fam = 1
    THEN Norm((Mix(t, salt) + salt) % (4 * TinyDen + 1), 2 * TinyDen)
    ELSE Norm(Mix(t, salt) % 4, 2 * TinyDen)

\* velocities: family 0 is zero everywhere; then all positive, mixed signs
\* (zero included), all negative
VelValue(fam, t, salt) ==
    LET h == Mix(t, salt) + fam
    IN  IF fam = 0 THEN ZERO
        ELSE IF fam = 1 THEN Q(1 + (h % 2))
        ELSE IF fam = 2 THEN Q((h % 3) - 1)
        ELSE Q(-1 - (h % 2))

\* cell extents and density: family 0 is the unit grid with density 1
GeoValue(fam, t, salt) == Q(1 + ((fam * Mix(t, salt)) % 2))

MkArr(sh, V(_, _, _), fam, salt) == Arr(sh, [t \in Idx(sh) |-> V(fam, t, salt)])

\* an Unknown: val, old, the six boundary arrays, pos and per; neumann is
\* the set of sides whose boundary condition is of Neumann type
MkUnknown(cells, pos, per, V(_, _, _), fam, salt) ==
    LET sh == ShapeAt(cells, pos)
    IN  [ val |-> MkArr(sh, V, fam, salt),
          old |-> MkArr(sh, V, fam, salt + 1),
          bnd |-> [side \in SIDES |->
                     MkArr(BndShape(sh, SideAxis(side)), V, fam,
                           salt + SideSalt(side))],
          pos |-> pos, per |-> per, neumann |-> {} ]

NOPER == <<FALSE, FALSE, FALSE>>
MkVelocity(cells, fam) ==
    << MkUnknown(cells, X, NOPER, VelValue, fam, 0),
       MkUnknown(cells, Y, NOPER, VelValue, fam, 1),
       MkUnknown(cells, Z, NOPER, VelValue, fam, 2) >>

MkGeometry(cells, fam) ==
    << MkArr(cells, GeoValue, fam, 0),
       MkArr(cells, GeoValue, fam, 1),
       MkArr(cells, GeoValue, fam, 2) >>

\* a SystemMatrix as the caller assembled it
MkMatrix(sh) ==
    [ W |-> ones(sh), E |-> ones(sh), S |-> ones(sh), N |-> ones(sh),
      B |-> ones(sh), T |-> ones(sh), C |-> Full(sh, Q(6)) ]

\* a placement and a limiter name outside the supported ones
BadPlacement == C + 1
BadLimiter == "central"

(***************************************************************************)
(* pyns.operators avg(pos, a): the cell array a taken at the placement pos *)
(***************************************************************************)
avg_pos(pos, A) == IF pos = C THEN A ELSE avg(pos, A)

(***************************************************************************)
(* calc_phi, lines 56-66: inertial term, source term, right-hand side      *)
(*   i_phi = old * avg(pos, density) * avg(pos, dx*dy*dz) / dt             *)
(*   s_phi = zeros | src * avg(pos, dx*dy*dz)                              *)
(*   f_phi = b_phi - c_phi + i_phi + s_phi                                 *)
(***************************************************************************)
volume(dxyzv) == AMul(AMul(dxyzv[X], dxyzv[Y]), dxyzv[Z])

i_phi_of(ph, density, dxyzv, dtv) ==
    SMul(AMul(AMul(ph.old, avg_pos(ph.pos, density)),
              avg_pos(ph.pos, volume(dxyzv))),
         RDiv(ONE, dtv))

s_phi_of(ph, dxyzv, source) ==
    IF source = None THEN zeros(ph.val.sh)
    ELSE AMul(source, avg_pos(ph.pos, volume(dxyzv)))

f_phi_of(ph, density, dxyzv, dtv, source, c_phi) ==
    AAdd(AAdd(ASub(zeros(ph.val.sh), c_phi), i_phi_of(ph, density, dxyzv, dtv)),
         s_phi_of(ph, dxyzv, source))

(***************************************************************************)
(* adj_n_bnds(phi): the boundary values of the Neumann sides are set to    *)
(* the values of the adjacent cells.                                       *)
(***************************************************************************)
adj_n_bnds(ph) ==
    [ph EXCEPT !.bnd = [side \in SIDES |->
        IF side \in ph.neumann
        THEN IF side = Lo(SideAxis(side))
             THEN First(SideAxis(side), ph.val)
             ELSE Last(SideAxis(side), ph.val)
        ELSE ph.bnd[side]]]

(***************************************************************************)
(* State.                                                                  *)
(*   rho, phi, uvwf, dxyz, dt, limiter, matrix  the caller's objects, the  *)
(*        arguments of advection (rho is calc_phi's density)               *)
(*   ret, exc, work   the last call's returned array, exception, stages    *)
(*   loc              the last call's local arrays when it returned        *)
(*   calls            number of calls of advection made                    *)
(*   pc, log, A_phi, f_phi, src   calc_phi: where it stands, the calls of  *)
(*        collaborators and the writes of phi.val it made so far, its      *)
(*        matrix, its right-hand side, its argument src                    *)
(*   ratio, psi       a gradient ratio and the limiter's value for it      *)
(***************************************************************************)
VARIABLES rho, phi, uvwf, dxyz, dt, limiter, matrix, ret, exc, work, loc,
          calls, pc, log, A_phi, f_phi, src, ratio, psi

vars == <<rho, phi, uvwf, dxyz, dt, limiter, matrix, ret, exc, work, loc,
          calls, pc, log, A_phi, f_phi, src, ratio, psi>>
result == <<ret, exc, work, loc>>

data == <<rho, phi, uvwf, dxyz, dt>>
driver == <<pc, log, A_phi, f_phi, src>>
sweep == <<ratio, psi>>

InitData(pos, p, seed) ==
    LET cells == Cells(LongOf(seed))
        per   == [ax \in 1..3 |-> p /\ ax = LongOf(seed)]
    IN  /\ phi = MkUnknown(cells, pos, per, PhiValue, PhiFamily(seed), 0)
        /\ uvwf = MkVelocity(cells, VelFamily(seed))
        /\ dxyz = MkGeometry(cells, GeoFamily(seed))
        /\ rho = MkArr(cells, GeoValue, GeoFamily(seed), 3)
        /\ dt = <<1, 2 + GeoFamily(seed)>>

InitCall(lim, withMatrix) ==
    /\ limiter = lim
    /\ matrix = IF withMatrix THEN MkMatrix(phi.val.sh) ELSE None
    /\ ret = NoArray /\ exc = "" /\ work = <<>> /\ loc = NoLocals /\ calls = 0

NoDriver ==
    pc = "" /\ log = <<>> /\ A_phi = None /\ f_phi = NoArray /\ src = None
NoSweep == ratio = ZERO /\ psi = NAN

(***************************************************************************)
(* Spec: a caller of advection.  Init draws the arguments; the second      *)
(* disjunct draws the unsupported configurations.                          *)
(***************************************************************************)
Init ==
    /\ \/ \E pos \in PLACEMENTS, p \in BOOLEAN, seed \in 0..MaxSeed,
             lim \in LIMITERS, withMatrix \in BOOLEAN :
             InitData(pos, p, seed) /\ InitCall(lim, withMatrix)
       \/ \E seed \in 0..MaxSeed, withMatrix \in BOOLEAN,
             bad \in {<<BadPlacement, "minmod">>, <<C, BadLimiter>>,
                      <<X, BadLimiter>>} :
             InitData(bad[1], FALSE, seed) /\ InitCall(bad[2], withMatrix)
    /\ NoDriver /\ NoSweep

\* the call when "flux_fac_lim_x *= rho_x_fac * a_x_fac" is written
\* "rho_x_fac *= a_x_fac": for a staggered variable rho_x_fac is the
\* caller's rho itself (line 113), which the call would then overwrite
Advection_rho_alias ==
    /\ calls < MaxCalls
    /\ LET out == advection(rho, phi, uvwf, dxyz, dt, limiter, matrix)
       IN  /\ ret' = out.ret
           /\ exc' = out.exc
           /\ work' = out.work
           /\ loc' = out.loc
           /\ matrix' = out.matrix
    /\ rho' = IF phi.pos \in AXES
              THEN AMul(rho, a_fac(dxyz, phi.pos, phi.per, phi.pos))
              ELSE rho
    /\ calls' = calls + 1
    /\ UNCHANGED <<phi, uvwf, dxyz, dt, limiter, driver, sweep>>

\* a call advection(rho, phi, uvwf, dxyz, dt, limiter, matrix) by the
\* caller, with the objects it holds
Advection ==
    /\ calls < MaxCalls
    /\ LET out == advection(rho, phi, uvwf, dxyz, dt, limiter, matrix)
       IN  /\ ret' = out.ret
           /\ exc' = out.exc
           /\ work' = out.work
           /\ loc' = out.loc
           /\ matrix' = out.matrix
    /\ calls' = calls + 1
    /\ UNCHANGED <<data, limiter, driver, sweep>>

Next == Advection
Spec == Init /\ [][Next]_vars

(***************************************************************************)
(* SpecPhi: one call calc_phi(phi, uvwf, density, gamma, dt, dxyz, obst,   *)
(* src), one step for each collaborator it calls (calc_phi.py lines 49-73).*)
(* log lists the collaborators called and the writes of phi.val, in order. *)
(***************************************************************************)
InitPhi ==
    /\ \E pos \in PLACEMENTS, p \in BOOLEAN, seed \in 0..MaxSeed,
          neu \in {{}, SIDES} :
          LET cells == Cells(LongOf(seed))
              per   == [ax \in 1..3 |-> p /\ ax = LongOf(seed)]
          IN  /\ phi = [MkUnknown(cells, pos, per, PhiValue, PhiFamily(seed), 0)
                          EXCEPT !.neumann = neu]
              /\ uvwf = MkVelocity(cells, VelFamily(seed))
              /\ dxyz = MkGeometry(cells, GeoFamily(seed))
              /\ rho = MkArr(cells, GeoValue, GeoFamily(seed), 3)
              /\ dt = <<1, 2 + GeoFamily(seed)>>
    /\ \E withSrc \in BOOLEAN :
          src = IF withSrc THEN ones(phi.val.sh) ELSE None
    /\ limiter = "" /\ matrix = None
    /\ ret = NoArray /\ exc = "" /\ work = <<>> /\ loc = NoLocals /\ calls = 0
    /\ pc = "start" /\ log = <<>> /\ A_phi = None /\ f_phi = NoArray
    /\ NoSweep

\* line 50: A_phi = create_matrix(phi, density/dt, gamma, dxyz, obst, NEUMANN)
CreateMatrix ==
    /\ pc = "start"
    /\ A_phi' = MkMatrix(phi.val.sh)
    /\ log' = Append(log, "create_matrix")
    /\ pc' = "assembled"
    /\ UNCHANGED <<data, limiter, matrix, result, calls, f_phi, src, sweep>>

\* line 54 with the assembled matrix passed on to advection
PhiAdvection_matrix ==
    /\ pc = "assembled"
    /\ LET out == advection(rho, phi, uvwf, dxyz, dt, "minmod", A_phi)
       IN  /\ ret' = out.ret
           /\ exc' = out.exc
           /\ work' = out.work
           /\ loc' = out.loc
           /\ matrix' = out.matrix
           /\ A_phi' = out.matrix
    /\ limiter' = "minmod"
    /\ calls' = calls + 1
    /\ log' = Append(log, "advection")
    /\ pc' = "advected"
    /\ UNCHANGED <<data, f_phi, src, sweep>>

\* line 54: c_phi = advection(density, phi, uvwf, dxyz, dt, 'minmod')
PhiAdvection ==
    /\ pc = "assembled"
    /\ LET out == advection(rho, phi, uvwf, dxyz, dt, "minmod", None)
       IN  /\ ret' = out.ret
           /\ exc' = out.exc
           /\ work' = out.work
           /\ loc' = out.loc
           /\ matrix' = out.matrix
    /\ limiter' = "minmod"
    /\ calls' = calls + 1
    /\ log' = Append(log, "advection")
    /\ pc' = "advected"
    /\ UNCHANGED <<data, A_phi, f_phi, src, sweep>>

\* the arrays bicgstab may return for a system of this shape
Solutions(sh) == { MkArr(sh, PhiValue, fam, 9) : fam \in 1..2 }

\* lines 56-69: the right-hand side, then
\*   phi.val[:] = bicgstab(A_phi, phi, f_phi, TOL)
Solve ==
    /\ pc = "advected"
    /\ f_phi' = f_phi_of(phi, rho, dxyz, dt, src, ret)
    /\ \E sol \in Solutions(phi.val.sh) : phi' = [phi EXCEPT !.val = sol]
    /\ log' = log \o <<"bicgstab", "phi.val[:]=">>
    /\ pc' = "solved"
    /\ UNCHANGED <<rho, uvwf, dxyz, dt, limiter, matrix, result, calls,
                   A_phi, src, sweep>>

\* line 71: adj_n_bnds(phi)
AdjNBnds ==
    /\ pc = "solved"
    /\ phi' = adj_n_bnds(phi)
    /\ log' = Append(log, "adj_n_bnds")
    /\ pc' = "done"
    /\ UNCHANGED <<rho, uvwf, dxyz, dt, limiter, matrix, result, calls,
                   A_phi, f_phi, src, sweep>>

NextPhi == CreateMatrix \/ PhiAdvection \/ Solve \/ AdjNBnds
SpecPhi == InitPhi /\ [][NextPhi]_vars

(***************************************************************************)
(* SpecPsi: the limiter function applied to a swept gradient ratio.        *)
(***************************************************************************)
MaxNum == 9
MaxDen == 5
LargeFactor == 100000

Ratios ==
    { Norm(n * f, d) : n \in (-MaxNum)..MaxNum, d \in 1..MaxDen,
                       f \in {1, LargeFactor} }

NoUnknown == [ val |-> NoArray, old |-> NoArray, bnd |-> <<>>, pos |-> C,
               per |-> NOPER, neumann |-> {} ]

InitPsi ==
    /\ limiter \in LIMITERS
    /\ ratio \in Ratios
    /\ psi = NAN
    /\ rho = NoArray /\ phi = NoUnknown /\ uvwf = <<>> /\ dxyz = <<>>
    /\ dt = ZERO /\ matrix = None
    /\ ret = NoArray /\ exc = "" /\ work = <<>> /\ loc = NoLocals /\ calls = 0
    /\ NoDriver

\* lines 339-354 at one face
ApplyLimiter ==
    /\ psi = NAN
    /\ psi' = psi_of(limiter, ratio)
    /\ UNCHANGED <<data, limiter, matrix, result, calls, driver, ratio>>

NextPsi == ApplyLimiter
SpecPsi == InitPsi /\ [][NextPsi]_vars

(***************************************************************************)
(* Properties.                                                             *)
(***************************************************************************)
AllZero(A) == \A t \in Idx(A.sh) : A.v[t] = ZERO
AllEqual(A, c) == \A t \in Idx(A.sh) : A.v[t] = c

\* the last call of advection returned
Returned == calls >= 1 /\ exc = ""

\* the three face velocities are zero in every cell and on every boundary
ZeroVelocity ==
    \A ax \in AXES :
        /\ AllZero(uvwf[ax].val)
        /\ \A side \in SIDES : AllZero(uvwf[ax].bnd[side])

\* the transported variable has one value in every cell and on every boundary
FieldValue == phi.val.v[<<1, 1, 1>>]
UniformField ==
    /\ AllEqual(phi.val, FieldValue)
    /\ \A side \in SIDES : AllEqual(phi.bnd[side], FieldValue)

\* C1: with zero velocity everywhere (cells and boundaries) the returned
\* advective term is zero in every cell, for every limiter and placement.
Thm_C1 == (Returned /\ ZeroVelocity) => AllZero(ret)

Wit_C1 ==
    /\ Returned /\ ZeroVelocity /\ ~UniformField
    /\ limiter = "koren" /\ phi.pos = X /\ matrix = None
    /\ AllZero(ret)

\* C2 as stated: for a uniform field and a non-zero velocity the array
\* returned in explicit mode is zero in every cell, for every limiter.
Orig_C2 ==
    (Returned /\ matrix = None /\ UniformField /\ ~ZeroVelocity)
        => AllZero(ret)

\* 0.5 * |u_fac| * (1 - |u_fac| * dt / del) on the faces of axis ax
CorrectionWeight(ax) ==
    AMul(SMul(abs(vel_fac(uvwf, phi.pos, ax)), HALF),
         Map1(one_minus,
              ADiv(SMul(abs(vel_fac(uvwf, phi.pos, ax)), dt),
                   del_fac(dxyz, phi.pos, phi.per, ax))))

\* (c * u_fac - TINY * weight) * rho_fac * a_fac; no TINY term for upwind
UniformFaceFlux(ax) ==
    AMul(ASub(SMul(vel_fac(uvwf, phi.pos, ax), FieldValue),
              SMul(CorrectionWeight(ax),
                   IF limiter = "upwind" THEN ZERO ELSE TINY)),
         AMul(rho_fac(rho, phi.pos, phi.per, ax),
              a_fac(dxyz, phi.pos, phi.per, ax)))

\* C2 amended: for a uniform field of value c the array returned in explicit
\* mode is the divergence of the face flux c * u * rho * a (upwind), less
\* TINY * 0.5 * |u| * (1 - |u| dt / del) * rho * a for the other limiters:
\* c times the divergence of the mass flow plus a term proportional to TINY.
Thm_C2 ==
    (Returned /\ matrix = None /\ UniformField)
        => ret = divergence(UniformFaceFlux(X), UniformFaceFlux(Y),
                            UniformFaceFlux(Z))

Wit_C2 ==
    /\ Returned /\ matrix = None /\ UniformField /\ ~ZeroVelocity
    /\ limiter = "superbee"
    /\ ~AllZero(ret)

\* the face arrays and flow masks of axis ax, from the caller's data
UpwindTerms(ax) == add_flow_ew(add_flow_we(face_terms(rho, phi, uvwf, dxyz, ax)))

\* C3: with limiter upwind psi is 0 at every face and the limited face flux
\* is the upwind face flux; the explicit call returns the upwind flux
\* divergence and the matrix call returns zero in every cell.
Thm_C3 ==
    (Returned /\ limiter = "upwind")
        => /\ \A ax \in AXES :
                /\ AllZero(loc.psi[ax])
                /\ loc.flux_fac_lim[ax] = flux_upw_ax(phi, UpwindTerms(ax), ax)
           /\ matrix = None
                => ret = c_upw_of(phi, UpwindTerms(X), UpwindTerms(Y),
                                  UpwindTerms(Z))
           /\ matrix # None => AllZero(ret)

Wit_C3 ==
    /\ Returned /\ limiter = "upwind" /\ matrix # None
    /\ ~ZeroVelocity /\ ~UniformField
    /\ AllZero(ret)

\* the array an explicit call with limiter lim returns for the caller's data
Explicit(lim) == advection(rho, phi, uvwf, dxyz, dt, lim, None).ret

\* C4: the array returned in matrix mode is the explicit result with the same
\* limiter minus the explicit result with limiter upwind; without a matrix
\* the returned array is the divergence of the limited face fluxes.
Thm_C4 ==
    Returned
        => IF matrix # None
           THEN ret = ASub(Explicit(limiter), Explicit("upwind"))
           ELSE ret = divergence(loc.flux_fac_lim[X], loc.flux_fac_lim[Y],
                                 loc.flux_fac_lim[Z])

Wit_C4 ==
    /\ Returned /\ matrix # None /\ limiter = "minmod"
    /\ ~AllZero(ret)
    /\ ret = ASub(Explicit("minmod"), Explicit("upwind"))

\* the limiter functions, region by region of the ratio
Between(lo, r, hi) == RLt(lo, r) /\ RLe(r, hi)
MinmodOf(r) ==
    IF RLe(r, ZERO) THEN ZERO ELSE IF RLt(r, ONE) THEN r ELSE ONE
SuperbeeOf(r) ==
    IF RLe(r, ZERO) THEN ZERO
    ELSE IF Between(ZERO, r, HALF) THEN RMul(TWO, r)
    ELSE IF Between(HALF, r, ONE) THEN ONE
    ELSE IF Between(ONE, r, TWO) THEN r
    ELSE TWO
KorenOf(r) ==
    IF RLe(r, ZERO) THEN ZERO
    ELSE IF Between(ZERO, r, <<2, 5>>) THEN RMul(TWO, r)
    ELSE IF Between(<<2, 5>>, r, Q(4)) THEN RDiv(RAdd(TWO, r), THREE)
    ELSE TWO

\* C5: for every ratio, large positive and large negative ones included,
\* 0 <= psi <= 2; psi is 0 for upwind and has the stated value for minmod,
\* superbee and koren.
Thm_C5 ==
    psi # NAN
        => /\ RLe(ZERO, psi) /\ RLe(psi, TWO)
           /\ limiter = "upwind" => psi = ZERO
           /\ limiter = "minmod" => psi = MinmodOf(ratio)
           /\ limiter = "superbee" => psi = SuperbeeOf(ratio)
           /\ limiter = "koren" => psi = KorenOf(ratio)

Wit_C5 ==
    /\ limiter = "koren" /\ RGt(ratio, Q(LargeFactor))
    /\ psi = TWO

\* what a step adds to band b of the SystemMatrix
BandInc(b) == ASub(matrix'[b], matrix[b])

\* u_fac * rho_fac * a_fac on the faces of axis ax
FaceMassFlow(ax) ==
    AMul(AMul(vel_fac(uvwf, phi.pos, ax), rho_fac(rho, phi.pos, phi.per, ax)),
         a_fac(dxyz, phi.pos, phi.per, ax))

\* what the face with velocity u and mass flow f gives to the cell above it
\* (in that cell's lower-neighbour coefficient) and to the cell below it (in
\* that cell's upper-neighbour coefficient): the mass flow, in magnitude, to
\* the cell the flow is directed to, nothing to the other
ToCellAbove(u, f) == IF RGe(u, ZERO) THEN f ELSE ZERO
ToCellBelow(u, f) == IF RLt(u, ZERO) THEN RNeg(f) ELSE ZERO

FromBelow(ax) ==
    Slab(ax, Map2(ToCellAbove, vel_fac(uvwf, phi.pos, ax), FaceMassFlow(ax)),
         1, phi.val.sh[ax])
FromAbove(ax) ==
    Slab(ax, Map2(ToCellBelow, vel_fac(uvwf, phi.pos, ax), FaceMassFlow(ax)),
         2, phi.val.sh[ax] + 1)

Downstream(ax) ==
    /\ matrix'[Lo(ax)] = AAdd(matrix[Lo(ax)], FromBelow(ax))
    /\ matrix'[Hi(ax)] = AAdd(matrix[Hi(ax)], FromAbove(ax))

\* what the calls made so far added to band b
Added(b) == ASub(matrix[b], MkMatrix(phi.val.sh)[b])

RowBalance ==
    matrix # None
        => Added("C") = AAdd(AAdd(AAdd(AAdd(AAdd(Added("W"), Added("E")),
                                            Added("S")), Added("N")),
                                  Added("B")), Added("T"))

\* C6: a call in matrix mode adds each face's upwind mass flow to the
\* neighbour coefficient of the cell downstream of the face, and what the
\* calls add to C is, in every cell, the sum of what they add to W, E, S, N,
\* B and T.
Thm_C6 ==
    /\ []RowBalance
    /\ [][(matrix # None /\ exc' = "") => \A ax \in AXES : Downstream(ax)]_vars

Wit_C6 ==
    /\ Returned /\ matrix # None
    /\ ~AllEqual(matrix.W, ONE) /\ ~AllEqual(matrix.E, ONE)
    /\ ~AllEqual(matrix.C, Q(6))

\* the configuration is not a supported one
BadConfig == phi.pos \notin PLACEMENTS \/ limiter \notin LIMITERS
ARRAY_WORK == {"faces", "differences", "ratios", "flow", "limiter", "flux",
               "matrix", "upwind"}

\* C7 as stated: a call with an unknown limiter or placement ends in an
\* error before any array work, and a supplied SystemMatrix is unchanged.
Orig_C7 ==
    (calls >= 1 /\ BadConfig)
        => /\ exc # ""
           /\ \A i \in 1..Len(work) : work[i] \notin ARRAY_WORK
           /\ matrix # None => matrix = MkMatrix(phi.val.sh)

SameIncrement(b) == SMul(BandInc(b), Q(calls)) = Added(b)

CALL_ORDER ==
    <<"create_matrix", "advection", "bicgstab", "phi.val[:]=", "adj_n_bnds">>

OrderInv ==
    /\ Len(log) <= Len(CALL_ORDER)
    /\ log = SubSeq(CALL_ORDER, 1, Len(log))
    /\ pc = "done" => log = CALL_ORDER
    /\ calls >= 1
         => /\ limiter = "minmod" /\ matrix = None /\ calls = 1
            /\ \A i \in 1..Len(work) : work[i] # "matrix"

WriteOnce ==
    /\ phi'.old = phi.old
    /\ phi'.val # phi.val
         => /\ log' = log \o <<"bicgstab", "phi.val[:]=">>
            /\ log = <<"create_matrix", "advection">>
    /\ A_phi # None => A_phi' = A_phi

\* C9: calc_phi calls create_matrix, advection (limiter minmod, no matrix),
\* bicgstab and adj_n_bnds once each in this order; phi.val is written once,
\* with the solver's result and before adj_n_bnds; the assembled matrix is
\* not modified after its assembly; phi.old is never written.
Thm_C9 == []OrderInv /\ [][WriteOnce]_vars

Wit_C9 ==
    /\ pc = "done" /\ log = CALL_ORDER
    /\ limiter = "minmod" /\ matrix = None /\ exc = ""
    /\ phi.val # phi.old /\ phi.neumann = SIDES

\* at face t of axis ax, d[t+1] is the difference across the face, d[t] the
\* one below it and d[t+2] the one above it: the downstream difference over
\* the upstream one is d[t+1]/d[t] for flow towards increasing index and
\* d[t+1]/d[t+2] for flow towards decreasing index
DownOverUp(ax, U, d, r) ==
    \A t \in Idx(r.sh) :
        r.v[t] = IF RGe(U.v[t], ZERO)
                 THEN RDiv(d.v[Shift(t, ax, 1)], d.v[t])
                 ELSE RDiv(d.v[Shift(t, ax, 1)], d.v[Shift(t, ax, 2)])

\* C10 as stated: at every face, in both flow directions, the selected ratio
\* is the downstream difference over the upstream difference.
Orig_C10 ==
    Returned
        => \A ax \in AXES :
              DownOverUp(ax, loc.u_fac[ax], loc.d[ax], loc.r[ax])

\* the clamped difference c of the difference q
ClampedAs(q, c) ==
    /\ RGe(RAbs(c), TINY)
    /\ q = ZERO => c = RNeg(TINY)
    /\ (RLt(RNeg(TINY), q) /\ RLt(q, ZERO)) => c = RNeg(TINY)
    /\ (RLt(ZERO, q) /\ RLt(q, TINY)) => c = TINY
    /\ RGe(RAbs(q), TINY) => c = q
    /\ q # ZERO => (RLt(q, ZERO) <=> RLt(c, ZERO))

ClampedFrom(raw, d) ==
    /\ d.sh = raw.sh
    /\ \A t \in Idx(d.sh) : ClampedAs(raw.v[t], d.v[t])

NoNaN(A) == \A t \in Idx(A.sh) : ~IsNaN(A.v[t])

\* C11: after the clamp every difference has magnitude at least TINY, so no
\* ratio is the result of a division by zero; a difference in (-TINY, 0)
\* becomes -TINY, one in (0, TINY) becomes +TINY, one of magnitude at least
\* TINY is unchanged, a zero difference becomes -TINY, and no non-zero
\* difference changes sign.
Thm_C11 ==
    Returned
        => \A ax \in AXES :
              /\ ClampedFrom(d_raw(phi, ax), loc.d[ax])
              /\ NoNaN(loc.r[ax])

\* some difference along ax satisfies Case
SomeDifference(raw, Case(_)) == \E t \in Idx(raw.sh) : Case(raw.v[t])
IsZero(q) == q = ZERO
SmallNegative(q) == RLt(RNeg(TINY), q) /\ RLt(q, ZERO)
SmallPositive(q) == RLt(ZERO, q) /\ RLt(q, TINY)
Large(q) == RGt(RAbs(q), TINY)

Wit_C11 ==
    /\ Returned /\ limiter = "koren"
    /\ SomeDifference(d_raw(phi, X), IsZero)
    /\ SomeDifference(d_raw(phi, X), SmallNegative)
    /\ SomeDifference(d_raw(phi, X), SmallPositive)
    /\ SomeDifference(d_raw(phi, X), Large)
    /\ \A t \in Idx(loc.d[X].sh) : RGe(RAbs(loc.d[X].v[t]), TINY)

\* the face flux of axis ax whose divergence the call returns: the limited
\* flux, less the upwind flux when a SystemMatrix was sent
NetFlux(ax) ==
    IF matrix = None THEN loc.flux_fac_lim[ax]
    ELSE ASub(loc.flux_fac_lim[ax], flux_upw_ax(phi, UpwindTerms(ax), ax))

\* flux F at the upper face of cell t along ax minus that at its lower face
FaceDiff(F, ax, t) == RSub(F.v[Shift(t, ax, 1)], F.v[t])

\* every cell holds the sum over the axes of upper minus lower face flux; a
\* face between two cells enters the lower cell with +, the upper with -
CellBalance(Fx, Fy, Fz) ==
    \A t \in Idx(ret.sh) :
        ret.v[t] = RAdd(RAdd(FaceDiff(Fx, X, t), FaceDiff(Fy, Y, t)),
                        FaceDiff(Fz, Z, t))

\* sum of A over the first k cells of the line through t along ax
RECURSIVE SumLine(_, _, _, _)
SumLine(A, t, ax, k) ==
    IF k = 0 THEN ZERO
    ELSE RAdd(SumLine(A, t, ax, k - 1), A.v[[t EXCEPT ![ax] = k]])

\* flux through the last face of the line through t minus that through its
\* first face
LastMinusFirst(F, ax, t) ==
    RSub(F.v[[t EXCEPT ![ax] = F.sh[ax]]], F.v[[t EXCEPT ![ax] = 1]])

\* the lines of cells along ax, each named by its first cell
LinesAlong(ax) == {t \in Idx(ret.sh) : t[ax] = 1}

\* the sum of the returned term along every line of every axis is the flux
\* through the line's last face minus that through its first face
LineSumsAsStated(Fx, Fy, Fz) ==
    /\ \A t \in LinesAlong(X) :
          SumLine(ret, t, X, ret.sh[X]) = LastMinusFirst(Fx, X, t)
    /\ \A t \in LinesAlong(Y) :
          SumLine(ret, t, Y, ret.sh[Y]) = LastMinusFirst(Fy, Y, t)
    /\ \A t \in LinesAlong(Z) :
          SumLine(ret, t, Z, ret.sh[Z]) = LastMinusFirst(Fz, Z, t)

\* C12 as stated: every cell holds the sum over the axes of the face-flux
\* differences, and the sum of the returned term along an axis line is the
\* flux through the last face of the line minus that through its first.
Orig_C12 ==
    Returned
        => /\ CellBalance(NetFlux(X), NetFlux(Y), NetFlux(Z))
           /\ LineSumsAsStated(NetFlux(X), NetFlux(Y), NetFlux(Z))

\* the same with the part of the other two axes (their face-flux differences
\* Ta + Tb, summed over the cells of the line) added
LineSums(ax, F, Ta, Tb) ==
    \A t \in LinesAlong(ax) :
        /\ SumLine(dif(ax, F), t, ax, ret.sh[ax]) = LastMinusFirst(F, ax, t)
        /\ SumLine(ret, t, ax, ret.sh[ax])
             = RAdd(LastMinusFirst(F, ax, t),
                    SumLine(AAdd(Ta, Tb), t, ax, ret.sh[ax]))

LineSumsAmended(Fx, Fy, Fz) ==
    /\ LineSums(X, Fx, dif(Y, Fy), dif(Z, Fz))
    /\ LineSums(Y, Fy, dif(X, Fx), dif(Z, Fz))
    /\ LineSums(Z, Fz, dif(X, Fx), dif(Y, Fy))

\* C12 amended: every cell holds the sum over the axes of the face-flux
\* differences; along an axis line the differences of that axis's flux sum
\* to last face minus first face, and the returned term sums to that plus
\* the face-flux differences of the other two axes over the line's cells.
Thm_C12 ==
    Returned
        => /\ CellBalance(NetFlux(X), NetFlux(Y), NetFlux(Z))
           /\ LineSumsAmended(NetFlux(X), NetFlux(Y), NetFlux(Z))

Wit_C12 ==
    /\ Returned /\ matrix = None /\ limiter = "koren" /\ phi.pos = Z
    /\ ~ZeroVelocity /\ ~UniformField
    /\ ~AllZero(ret)
    /\ ~AllZero(dif(X, loc.flux_fac_lim[X]))
    /\ ~LineSumsAsStated(NetFlux(X), NetFlux(Y), NetFlux(Z))

====
